---------------------------- MODULE Spec2Model ----------------------------
(***************************************************************************)
(* Model of MNIST/Linux/MNIST.cpp: the SDL2 drawing board that downsamples *)
(* the canvas to a 28x28 image, runs an ONNX Runtime session on it and     *)
(* reports the softmax / arg-max of the ten outputs.                       *)
(*                                                                         *)
(* A C++ float is modelled by its IEEE-754 binary32 bit pattern: a value   *)
(* x >= 0 is the integer whose 32 bits are x's encoding, and -x is the     *)
(* negated integer.  Ordering of floats is then ordering of integers, and  *)
(* every arithmetic operator below rounds to nearest, ties to even, as the *)
(* hardware does.  Only normal numbers and zero occur in the ranges used.  *)
(***************************************************************************)
EXTENDS Integers, Sequences, FiniteSets, TLC

-----------------------------------------------------------------------------
(* Program constants *)

MNIST_WIDTH == 28
MNIST_HEIGHT == 28
NumClasses == 10

NumCells == MNIST_WIDTH * MNIST_HEIGHT
Cells == 0 .. (NumCells - 1)
Classes == 0 .. (NumClasses - 1)

-----------------------------------------------------------------------------
(* binary32 arithmetic *)

MantBits == 23
ExpBias == 150

Hidden == 2 ^ MantBits

RECURSIVE BitLen(_)
BitLen(x) == IF x = 0 THEN 0 ELSE 1 + BitLen(x \div 2)

\* sign and magnitude of an encoded float
F32Abs(a) == IF a < 0 THEN -a ELSE a

\* significand and exponent of a positive normal float: value = m * 2^e
F32Mant(a) == Hidden + (a % Hidden)
F32Expo(a) == (a \div Hidden) - ExpBias

\* m in [2^23, 2^24), value m * 2^e
F32Pack(m, e) == (e + ExpBias) * Hidden + (m - Hidden)

\* sig * 2^e (plus, when sticky, a positive amount below one unit of sig)
\* rounded to nearest-even
F32Round(sig, e, sticky) ==
    LET n == BitLen(sig)
    IN  IF n <= MantBits + 1
        THEN F32Pack(sig * 2 ^ (MantBits + 1 - n), e - (MantBits + 1 - n))
        ELSE LET k == n - (MantBits + 1)
                 q == sig \div (2 ^ k)
                 r == sig % (2 ^ k)
                 half == 2 ^ (k - 1)
                 up == \/ r > half
                       \/ r = half /\ (sticky \/ q % 2 = 1)
                 m == IF up THEN q + 1 ELSE q
             IN  IF m = 2 * Hidden
                 THEN F32Pack(Hidden, e + k + 1)
                 ELSE F32Pack(m, e + k)

\* (float) of an int in 0 .. 2^24
F32FromInt(n) == IF n = 0 THEN 0 ELSE F32Round(n, 0, FALSE)

GuardBits == 6

\* |a| + |b| for non-negative a >= b
F32AddMag(a, b) ==
    IF b = 0 THEN a
    ELSE LET d == F32Expo(a) - F32Expo(b)
         IN  IF d <= GuardBits
             THEN F32Round(F32Mant(a) * 2 ^ d + F32Mant(b), F32Expo(b), FALSE)
             ELSE LET sh == d - GuardBits
                      bs == IF sh > MantBits THEN 0 ELSE F32Mant(b) \div (2 ^ sh)
                      st == IF sh > MantBits THEN TRUE ELSE F32Mant(b) % (2 ^ sh) # 0
                  IN  F32Round(F32Mant(a) * 2 ^ GuardBits + bs,
                               F32Expo(a) - GuardBits, st)

\* |a| - |b| for non-negative a >= b
F32SubMag(a, b) ==
    IF b = 0 THEN a
    ELSE IF a = b THEN 0
    ELSE LET d == F32Expo(a) - F32Expo(b)
         IN  IF d <= GuardBits
             THEN F32Round(F32Mant(a) * 2 ^ d - F32Mant(b), F32Expo(b), FALSE)
             ELSE LET sh == d - GuardBits
                      bs == IF sh > MantBits THEN 0 ELSE F32Mant(b) \div (2 ^ sh)
                      st == IF sh > MantBits THEN TRUE ELSE F32Mant(b) % (2 ^ sh) # 0
                  IN  F32Round(F32Mant(a) * 2 ^ GuardBits - bs - (IF st THEN 1 ELSE 0),
                               F32Expo(a) - GuardBits, st)

\* a + b
F32Add(a, b) ==
    IF a >= 0 /\ b >= 0
    THEN IF a >= b THEN F32AddMag(a, b) ELSE F32AddMag(b, a)
    ELSE IF a < 0 /\ b < 0
    THEN IF a <= b THEN -F32AddMag(-a, -b) ELSE -F32AddMag(-b, -a)
    ELSE LET p == IF a >= 0 THEN a ELSE b
             n == IF a >= 0 THEN -b ELSE -a
         IN  IF p >= n THEN F32SubMag(p, n) ELSE -F32SubMag(n, p)

\* a - b
F32Sub(a, b) == F32Add(a, -b)

QuotBits == 26

RECURSIVE LongDiv(_, _, _, _)
\* binary long division: steps more quotient bits of rem / den
LongDiv(q, rem, den, steps) ==
    IF steps = 0 THEN <<q, rem>>
    ELSE IF 2 * rem >= den
         THEN LongDiv(2 * q + 1, 2 * rem - den, den, steps - 1)
         ELSE LongDiv(2 * q, 2 * rem, den, steps - 1)

\* a / b for b > 0
F32DivMag(a, b) ==
    IF a = 0 THEN 0
    ELSE LET ma == F32Mant(a)
             mb == F32Mant(b)
             qr == LongDiv(ma \div mb, ma % mb, mb, QuotBits)
         IN  F32Round(qr[1], F32Expo(a) - F32Expo(b) - QuotBits, qr[2] # 0)

F32Div(a, b) == IF a < 0 THEN -F32DivMag(-a, b) ELSE F32DivMag(a, b)

F32Zero == 0
F32One == F32FromInt(1)
F32_3 == F32FromInt(3)
F32_255 == F32FromInt(255)


-----------------------------------------------------------------------------
(* MNISTModel::convertImage *)

ByteMax == 255
Bytes == 0 .. ByteMax

\* (255.0f - (r + g + b) / 3.0f) / 255.0f for an int sum s
NormOfSum(s) == F32Div(F32Sub(F32_255, F32Div(F32FromInt(s), F32_3)), F32_255)

\* the values of NormOfSum for the sums three bytes can have, as a tuple
\* indexed by sum + 1
NormTable == [i \in 1 .. (3 * ByteMax + 1) |-> NormOfSum(i - 1)] \o <<>>

PixelValue_NoAverage(r, g, b) ==
    F32Div(F32Sub(F32_255, F32FromInt(r + g + b)), F32_255)

PixelValue_NotInverted(r, g, b) ==
    F32Div(F32Div(F32FromInt(r + g + b), F32_3), F32_255)

\* the value stored for a sampled pixel
PixelValue(r, g, b) == NormTable[r + g + b + 1]

SrcY_RoundUp(row, bigHeight) == (row * bigHeight + MNIST_HEIGHT - 1) \div MNIST_HEIGHT

SrcY(row, bigHeight) == (row * bigHeight) \div MNIST_HEIGHT
SrcX(col, bigWidth) == (col * bigWidth) \div MNIST_WIDTH

PixelIdx(srcX, srcY, bigWidth) == (srcY * bigWidth + srcX) * 4

LoopRows == 0 .. (MNIST_HEIGHT - 1)
LoopCols == 0 .. (MNIST_WIDTH - 1)

\* A std::vector<uint8_t> is given by its elements, a function on
\* 0 .. size - 1, and its size().
\* sdl_pixels[i]; the vector is not range-checked, so an index outside it
\* reads whatever the build finds there (ub)
ReadByte(pixels, size, i, ub) ==
    IF 0 <= i /\ i < size THEN pixels[i] ELSE ub

\* the cells the two loops assign
CellsWritten == {row * MNIST_WIDTH + col : row \in LoopRows, col \in LoopCols}

\* the source pixels the two loops sample
SourcePixels(bigWidth, bigHeight) ==
    {<<SrcX(col, bigWidth), SrcY(row, bigHeight)>> : row \in LoopRows, col \in LoopCols}

\* input_image_ after convertImage(sdl_pixels, bigWidth, bigHeight)
ConvertImage(pixels, size, bigWidth, bigHeight, ub) ==
    [c \in Cells |->
        IF c \in CellsWritten
        THEN LET row == c \div MNIST_WIDTH
                 col == c % MNIST_WIDTH
                 idx == PixelIdx(SrcX(col, bigWidth), SrcY(row, bigHeight), bigWidth)
             IN  PixelValue(ReadByte(pixels, size, idx, ub),
                            ReadByte(pixels, size, idx + 1, ub),
                            ReadByte(pixels, size, idx + 2, ub))
        ELSE F32Zero]

-----------------------------------------------------------------------------
(* softmax and the arg-max of MNISTModel::Run *)

\* the int an integer-valued float holds
F32ToInt(a) ==
    IF a = 0 THEN 0
    ELSE LET v == F32Mant(F32Abs(a)) \div (2 ^ (0 - F32Expo(F32Abs(a))))
         IN  IF a < 0 THEN -v ELSE v

\* expf(-d) for d = 0, 1, ..., as the bit patterns glibc's expf returns
ExpTable ==
    << 1065353216, 1052531378, 1040880981, 1028386182, 1016466094, 1004325375,
       992113296, 980355933, 967827720, 956393361, 943614926, 931928737,
       919480930, 907522090, 895432248, 883178213, 871475934 >>

\* std::exp(x) for the integer-valued x <= 0 the model draws
StdExp(x) == ExpTable[1 - F32ToInt(x)]

MaxElement_LastWins(a) ==
    LET RECURSIVE scan(_, _)
        scan(largest, i) ==
            IF i = NumClasses THEN largest
            ELSE scan(IF a[largest] <= a[i] THEN i ELSE largest, i + 1)
    IN  scan(0, 1)

\* std::max_element over a 10-element array: the index of the first greatest
MaxElement(a) ==
    LET RECURSIVE scan(_, _)
        scan(largest, i) ==
            IF i = NumClasses THEN largest
            ELSE scan(IF a[largest] < a[i] THEN i ELSE largest, i + 1)
    IN  scan(0, 1)

\* y[i] = std::exp(input[i] - rowmax)
SoftmaxExp(input) ==
    LET rowmax == input[MaxElement(input)]
    IN  [i \in Classes |-> StdExp(F32Sub(input[i], rowmax))]

SoftmaxSum_SkipLast(y) ==
    LET RECURSIVE acc(_, _)
        acc(sum, i) == IF i = NumClasses - 1 THEN sum ELSE acc(F32Add(sum, y[i]), i + 1)
    IN  acc(F32Zero, 0)

\* sum += val, left to right from 0.0f
SoftmaxSum(y) ==
    LET RECURSIVE acc(_, _)
        acc(sum, i) == IF i = NumClasses THEN sum ELSE acc(F32Add(sum, y[i]), i + 1)
    IN  acc(F32Zero, 0)

\* the array after softmax(input)
Softmax(input) ==
    LET y == SoftmaxExp(input)
        sum == SoftmaxSum(y)
    IN  [i \in Classes |-> F32Div(y[i], sum)]

-----------------------------------------------------------------------------
(* State *)

VARIABLES
    pc,             \* where the process is: "load", "sdl_init", "poll",
                    \* "exited", "aborted"; for the stand-alone calls of
                    \* convertImage and of the decision code, see below
    modelKind,      \* what lies at model_path: "missing", "incompatible", "ok"
    input_image_,   \* MNISTModel::input_image_
    results_,       \* MNISTModel::results_
    quit, drawing, lastPos,
    drawColor,      \* the renderer's draw colour
    texture,        \* the canvas: its clear colour and the segments drawn since
    exitStatus,     \* main's return value once pc = "exited"
    cerr,           \* the diagnostics written to std::cerr
    report,         \* the predictions written to std::cout, the last one kept
    capture,        \* the arguments of a stand-alone convertImage call
    \* history
    written,        \* the cells the last stand-alone convertImage assigned
    sampled,        \* the source pixels the last stand-alone convertImage read
    logits,         \* results_ as the session left it at the last Run
    predicted,      \* the value the last Run returned
    calls,          \* the steps the last pointer-release went through
    nRequests       \* the stand-alone convertImage calls made so far

vars == <<pc, modelKind, input_image_, results_, quit, drawing,
          lastPos, drawColor, texture, exitStatus, cerr, report, capture,
          written, sampled, logits, predicted, calls, nRequests>>

modelVars == <<input_image_, results_, written, sampled, logits, predicted>>
uiVars == <<quit, drawing, lastPos, drawColor, texture>>
outVars == <<exitStatus, cerr, report>>

\* bounds of the model
MaxRequests == 2
MaxSegs == 1
MaxDim == 3
MaxLogit == 2

width == MNIST_WIDTH * 10
height == MNIST_HEIGHT * 8

White == <<ByteMax, ByteMax, ByteMax, ByteMax>>
FrameGrey == <<200, 200, 200, ByteMax>>

ZeroImage == [c \in Cells |-> F32Zero]
ZeroResults == [i \in Classes |-> F32Zero]
NoCapture == [w |-> 0, h |-> 0, size |-> 0, px |-> <<>>]
BlankTexture == [clear |-> White, segs |-> <<>>]

\* a float holding the int v
F32OfInt(v) == IF v < 0 THEN -F32FromInt(-v) ELSE F32FromInt(v)

-----------------------------------------------------------------------------
(* convertImage on its own: any capture, any number of requests *)

Dims == (1 .. MaxDim) \cup {MNIST_WIDTH, MNIST_WIDTH + MaxDim}

\* RGBA pixels the captures are made of
Palette == {White, <<ByteMax, ByteMax, ByteMax, 0>>, <<0, 0, 0, ByteMax>>,
            FrameGrey, <<ByteMax, 0, 1, 128>>}

\* a w x h capture of colour bg with one pixel, number at, of colour ink:
\* w * h * 4 bytes, R, G, B, A interleaved
MakeCapture(w, h, bg, ink, at) ==
    [w |-> w, h |-> h,
     size |-> w * h * 4,
     px |-> [i \in 0 .. (w * h * 4 - 1) |->
                (IF i \div 4 = at THEN ink ELSE bg)[(i % 4) + 1]]]

Captures ==
    {MakeCapture(w, h, bg, ink, at) :
        w \in Dims, h \in Dims, bg \in Palette, ink \in Palette,
        at \in {0, MNIST_WIDTH + 1, MNIST_WIDTH * MNIST_HEIGHT - 1}}

InitRest ==
    /\ input_image_ = ZeroImage
    /\ quit = FALSE
    /\ drawing = FALSE
    /\ lastPos = <<0, 0>>
    /\ drawColor = <<0, 0, 0, 0>>
    /\ texture = BlankTexture
    /\ exitStatus = 0
    /\ cerr = <<>>
    /\ report = <<>>
    /\ written = {}
    /\ sampled = {}
    /\ predicted = -1
    /\ calls = <<>>
    /\ nRequests = 0

NormInit ==
    /\ pc = "norm_ready"
    /\ capture \in Captures
    /\ modelKind = "ok"
    /\ results_ = ZeroResults
    /\ logits = ZeroResults
    /\ InitRest

\* what a read outside the vector may find: nothing to choose when every
\* read of the call is inside
GarbageBytes(size, bigWidth, bigHeight) ==
    IF \A sp \in SourcePixels(bigWidth, bigHeight) :
          /\ 0 <= PixelIdx(sp[1], sp[2], bigWidth)
          /\ PixelIdx(sp[1], sp[2], bigWidth) + 2 < size
    THEN {0}
    ELSE {0, ByteMax}

\* one call mnistModel->convertImage(pixels, w, h)
NormConvert ==
    /\ pc = "norm_ready"
    /\ \E ub \in GarbageBytes(capture.size, capture.w, capture.h) :
          input_image_' = ConvertImage(capture.px, capture.size, capture.w,
                                       capture.h, ub)
    /\ written' = CellsWritten
    /\ sampled' = SourcePixels(capture.w, capture.h)
    /\ nRequests' = nRequests + 1
    /\ pc' = "norm_done"
    /\ UNCHANGED <<modelKind, results_, uiVars, outVars, capture,
                   logits, predicted, calls>>

\* the next request brings another capture; the image of the last stays
NormRecapture ==
    /\ pc = "norm_done"
    /\ nRequests < MaxRequests
    /\ \E bg \in Palette :
          capture' = MakeCapture(capture.h, capture.w, bg, bg, 0)
    /\ pc' = "norm_ready"
    /\ UNCHANGED <<modelKind, modelVars, uiVars, outVars, calls,
                   nRequests>>

NormNext == NormConvert \/ NormRecapture

SpecNorm == NormInit /\ [][NormNext]_vars

-----------------------------------------------------------------------------
(* the decision code of Run on its own: softmax, then the arg-max *)

LogitVals == (0 - MaxLogit) .. MaxLogit

\* all entries b but entry i, which is a, and entry j, which is c
LogitVector(b, i, a, j, c) ==
    [k \in Classes |-> F32OfInt(IF k = i THEN a ELSE IF k = j THEN c ELSE b)]

\* what the session may have written: integer-valued logits, two of them,
\* three places apart, free of the rest
LogitFamily ==
    {LogitVector(b, i, a, (i + 3) % NumClasses, c) :
        b \in LogitVals, a \in LogitVals, c \in LogitVals, i \in Classes}

DecInit ==
    /\ pc = "dec_ready"
    /\ capture = NoCapture
    /\ results_ \in LogitFamily
    /\ logits = results_
    /\ modelKind = "ok"
    /\ InitRest

\* softmax(results_) on what the session wrote
DecSoftmax ==
    /\ pc = "dec_ready"
    /\ results_' = Softmax(results_)
    /\ pc' = "dec_probs"
    /\ UNCHANGED <<modelKind, input_image_, uiVars, outVars, capture,
                   written, sampled, logits, predicted, calls, nRequests>>

\* index = std::distance(begin, std::max_element(begin, end))
DecArgMax ==
    /\ pc = "dec_probs"
    /\ predicted' = MaxElement(results_)
    /\ pc' = "dec_done"
    /\ UNCHANGED <<modelKind, input_image_, results_, uiVars,
                   outVars, capture, written, sampled, logits, calls,
                   nRequests>>

DecNext == DecSoftmax \/ DecArgMax

SpecDecide == DecInit /\ [][DecNext]_vars


-----------------------------------------------------------------------------
(* main: start-up *)

ModelKinds == {"missing", "incompatible", "ok"}

Init ==
    /\ pc = "load"
    /\ modelKind \in ModelKinds
    /\ capture = NoCapture
    /\ results_ = ZeroResults
    /\ logits = ZeroResults
    /\ InitRest

LoadModel_RejectsIncompatible ==
    /\ pc = "load"
    /\ IF modelKind # "ok"
       THEN /\ cerr' = Append(cerr, "ONNX Runtime error")
            /\ exitStatus' = -1
            /\ pc' = "exited"
       ELSE /\ pc' = "sdl_init"
            /\ UNCHANGED <<exitStatus, cerr>>
    /\ UNCHANGED <<modelKind, modelVars, uiVars, report, capture,
                   calls, nRequests>>

LoadModel_Continue ==
    /\ pc = "load"
    /\ pc' = "sdl_init"
    /\ cerr' = IF modelKind = "missing"
               THEN Append(cerr, "ONNX Runtime error") ELSE cerr
    /\ UNCHANGED <<modelKind, modelVars, uiVars, exitStatus, report,
                   capture, calls, nRequests>>

\* std::make_unique<MNISTModel>(model_path) inside try/catch: the session
\* constructor throws Ort::Exception when the file cannot be loaded; the
\* constructor compares no shape of the model with input_shape_ or
\* output_shape_, which only describe the tensors bound to its own buffers
LoadModel ==
    /\ pc = "load"
    /\ IF modelKind = "missing"
       THEN /\ cerr' = Append(cerr, "ONNX Runtime error")
            /\ exitStatus' = -1
            /\ pc' = "exited"
       ELSE /\ pc' = "sdl_init"
            /\ UNCHANGED <<exitStatus, cerr>>
    /\ UNCHANGED <<modelKind, modelVars, uiVars, report, capture,
                   calls, nRequests>>

SdlOutcomes == {"ok", "init_failed", "no_window", "no_renderer"}

\* SDL_Init, the window, the renderer, the texture and its first clear
InitSDL ==
    /\ pc = "sdl_init"
    /\ \E o \in SdlOutcomes :
          IF o = "ok"
          THEN /\ drawColor' = White
               /\ texture' = [clear |-> White, segs |-> <<>>]
               /\ quit' = FALSE
               /\ drawing' = FALSE
               /\ lastPos' = <<0, 0>>
               /\ pc' = "poll"
               /\ UNCHANGED <<exitStatus, cerr>>
          ELSE /\ cerr' = Append(cerr, o)
               /\ exitStatus' = -1
               /\ pc' = "exited"
               /\ UNCHANGED uiVars
    /\ UNCHANGED <<modelKind, modelVars, report, capture, calls,
                   nRequests>>

-----------------------------------------------------------------------------
(* main: the canvas *)

\* the capture main passes to convertImage has width * height * 4 bytes
CanvasBytes == width * height * 4
CanvasGarbage == GarbageBytes(CanvasBytes, width, height)

\* pointer positions the events carry; the last lies outside the window
Points == {<<30, 40>>, <<width + 20, 0 - 3>>}

\* std::clamp
Clamp(v, lo, hi) == IF v < lo THEN lo ELSE IF hi < v THEN hi ELSE v

StrokeOffsets == (0 - 2) .. 2

\* n / d rounded to the nearest integer, for d # 0
Nearest(n, d) ==
    IF d < 0 THEN (2 * (0 - n) - d) \div (2 * (0 - d))
    ELSE (2 * n + d) \div (2 * d)

\* SDL_RenderDrawLine from (x0, y0) to (x1, y1) paints pixel (px, py): one
\* pixel for each step along the longer axis
OnLine(px, py, x0, y0, x1, y1) ==
    LET dx == x1 - x0
        dy == y1 - y0
        adx == IF dx < 0 THEN 0 - dx ELSE dx
        ady == IF dy < 0 THEN 0 - dy ELSE dy
    IN  IF adx >= ady
        THEN /\ (x0 <= px /\ px <= x1) \/ (x1 <= px /\ px <= x0)
             /\ py = IF dx = 0 THEN y0 ELSE y0 + Nearest((px - x0) * dy, dx)
        ELSE /\ (y0 <= py /\ py <= y1) \/ (y1 <= py /\ py <= y0)
             /\ px = x0 + Nearest((py - y0) * dx, dy)

\* SDL_RenderSetScale(renderer, 1.5f, 1.5f): ScaleNum / ScaleDen
ScaleNum == 3
ScaleDen == 2

\* the drawing coordinate that falls on pixel p under the render scale
Unscaled(p) == (p * ScaleDen) \div ScaleNum

\* one of the lines of a stroke segment, the first and its five copies
\* shifted by i in -2..2, passes through pixel (px, py)
SegCovers(seg, px, py) ==
    LET qx == Unscaled(px)
        qy == Unscaled(py)
    IN  /\ (seg.from[2] <= qy /\ qy <= seg.to[2]) \/ (seg.to[2] <= qy /\ qy <= seg.from[2])
        /\ \E i \in StrokeOffsets :
              OnLine(qx, qy, seg.from[1] + i, seg.from[2], seg.to[1] + i, seg.to[2])

\* SDL_BLENDMODE_BLEND of src over dst
Blend(src, dst) ==
    [k \in 1 .. 4 |->
        IF k = 4
        THEN src[4] + (dst[4] * (ByteMax - src[4])) \div ByteMax
        ELSE (src[k] * src[4] + dst[k] * (ByteMax - src[4])) \div ByteMax]

RECURSIVE PaintOver(_, _, _, _, _)
PaintOver(color, segs, n, px, py) ==
    IF n > Len(segs) THEN color
    ELSE PaintOver(IF SegCovers(segs[n], px, py)
                   THEN Blend(segs[n].color, color) ELSE color,
                   segs, n + 1, px, py)

\* the colour of pixel (px, py) of the canvas
TexturePixel(tex, px, py) == PaintOver(tex.clear, tex.segs, 1, px, py)

\* the demo's hosts (Linux under WSL2) are little-endian
HostByteOrder == "little"

\* byte k of a pixel read as SDL_PIXELFORMAT_RGBA8888, a packed 32-bit
\* format: R first on a big-endian host, A first on a little-endian one
PackedByte(color, k, order) ==
    IF order = "big" THEN color[k + 1] ELSE color[4 - k]

\* std::vector<uint8_t> pixels(width*height*4) after a successful
\* SDL_RenderReadPixels
ReadPixels(tex, order) ==
    [i \in 0 .. (CanvasBytes - 1) |->
        PackedByte(TexturePixel(tex, (i \div 4) % width, (i \div 4) \div width),
                   i % 4, order)]

-----------------------------------------------------------------------------
(* main: the event loop *)

Buttons == {"LEFT", "RIGHT", "MIDDLE"}
Keys == {"ESCAPE", "a"}

\* what session_.Run may leave in results_ when it returns
MainLogits == {LogitVector(0, 0, 0, 3, 0), LogitVector(0, 1, 1, 4, 1)}

FullRequest == <<"capture", "normalize", "run", "softmax", "argmax", "report">>
FailedRequest == <<"capture", "normalize", "run">>

\* case SDL_QUIT
HandleQuit ==
    /\ pc = "poll"
    /\ quit' = TRUE
    /\ UNCHANGED <<pc, modelKind, modelVars, drawing, lastPos,
                   drawColor, texture, outVars, capture, calls, nRequests>>

\* case SDL_KEYDOWN
HandleKeyDown ==
    /\ pc = "poll"
    /\ \E sym \in Keys : quit' = IF sym = "ESCAPE" THEN TRUE ELSE quit
    /\ UNCHANGED <<pc, modelKind, modelVars, drawing, lastPos,
                   drawColor, texture, outVars, capture, calls, nRequests>>

\* case SDL_MOUSEBUTTONDOWN
HandleMouseButtonDown ==
    /\ pc = "poll"
    /\ \E button \in Buttons, p \in Points :
          IF button = "LEFT"
          THEN /\ lastPos' = <<Clamp(p[1], 0, width - 1), Clamp(p[2], 0, height - 1)>>
               /\ drawing' = TRUE
               /\ UNCHANGED <<drawColor, texture>>
          ELSE IF button = "RIGHT"
          THEN /\ drawColor' = White
               /\ texture' = [clear |-> White, segs |-> <<>>]
               /\ UNCHANGED <<lastPos, drawing>>
          ELSE UNCHANGED <<lastPos, drawing, drawColor, texture>>
    /\ UNCHANGED <<pc, modelKind, modelVars, quit, outVars, capture,
                   calls, nRequests>>

\* case SDL_MOUSEBUTTONUP, another button than the left
HandleOtherButtonUp ==
    /\ pc = "poll"
    /\ \E button \in Buttons \ {"LEFT"} : TRUE
    /\ UNCHANGED vars

\* session_.Run, softmax and the arg-max of MNISTModel::Run, and the report
\* main prints
RunReturns ==
    /\ modelKind = "ok"
    /\ \E out \in MainLogits :
          /\ logits' = out
          /\ results_' = Softmax(out)
    /\ predicted' = MaxElement(results_')
    /\ report' = <<[index |-> predicted', probabilities |-> results_']>>
    /\ calls' = FullRequest
    /\ UNCHANGED <<pc, exitStatus>>

\* session_.Run throws Ort::Exception: nothing in Run or in main catches
\* it, so std::terminate ends the process
RunThrows ==
    /\ calls' = FailedRequest
    /\ pc' = "aborted"
    /\ UNCHANGED <<results_, logits, predicted, report, exitStatus>>

\* case SDL_MOUSEBUTTONUP, left button
HandleLeftButtonUp ==
    /\ pc = "poll"
    /\ drawing' = FALSE
    /\ \E ub \in CanvasGarbage :
          input_image_' = ConvertImage(ReadPixels(texture, HostByteOrder),
                                       CanvasBytes, width, height, ub)
    /\ \/ RunReturns
       \/ RunThrows
    /\ UNCHANGED <<modelKind, quit, lastPos, drawColor, texture,
                   cerr, capture, written, sampled, nRequests>>

\* case SDL_MOUSEMOTION
HandleMouseMotion ==
    /\ pc = "poll"
    /\ \E p \in Points :
          LET x == Clamp(p[1], 0, width - 1)
              y == Clamp(p[2], 0, height - 1)
          IN  IF drawing
              THEN /\ Len(texture.segs) < MaxSegs
                   /\ texture' = [texture EXCEPT !.segs =
                         Append(@, [from |-> lastPos, to |-> <<x, y>>,
                                    color |-> drawColor])]
                   /\ lastPos' = <<x, y>>
              ELSE UNCHANGED <<texture, lastPos>>
    /\ UNCHANGED <<pc, modelKind, modelVars, quit, drawing,
                   drawColor, outVars, capture, calls, nRequests>>

\* SDL_PollEvent returns 0: the frame is rendered, which leaves the draw
\* colour at (200,200,200,255), and the outer loop tests quit
RenderFrame ==
    /\ pc = "poll"
    /\ drawColor' = FrameGrey
    /\ IF quit
       THEN /\ pc' = "exited"
            /\ exitStatus' = 0
       ELSE UNCHANGED <<pc, exitStatus>>
    /\ UNCHANGED <<modelKind, modelVars, quit, drawing, lastPos,
                   texture, cerr, report, capture, calls, nRequests>>

Next ==
    \/ LoadModel
    \/ InitSDL
    \/ HandleQuit
    \/ HandleKeyDown
    \/ HandleMouseButtonDown
    \/ HandleOtherButtonUp
    \/ HandleLeftButtonUp
    \/ HandleMouseMotion
    \/ RenderFrame

Spec == Init /\ [][Next]_vars

-----------------------------------------------------------------------------
(* Properties of convertImage *)

\* the capture's pixels all have R = G = B = v
UniformRGB(v) ==
    \A p \in 0 .. (capture.w * capture.h - 1) :
        /\ capture.px[4 * p] = v
        /\ capture.px[4 * p + 1] = v
        /\ capture.px[4 * p + 2] = v

\* C1: after one call of convertImage on a W x H capture of W*H*4 bytes,
\* input_image_ has exactly 784 cells, the call has written every one of
\* them, and every cell holds a float in [0, 1]; so does the value stored
\* for any three bytes, whose sum is any of 0 .. 765.
C1_ShapeInvariant ==
    pc = "norm_done" =>
        /\ capture.size = capture.w * capture.h * 4
        /\ DOMAIN input_image_ = Cells
        /\ Cardinality(Cells) = 784
        /\ written = Cells
        /\ \A c \in Cells : F32Zero <= input_image_[c] /\ input_image_[c] <= F32One
        /\ \A r \in {0, ByteMax}, g \in {0, ByteMax}, b \in Bytes :
              F32Zero <= PixelValue(r, g, b) /\ PixelValue(r, g, b) <= F32One

\* a wide, one-row capture has been normalized and some cell lies strictly
\* between 0 and 1
C1_Witness ==
    /\ pc = "norm_done"
    /\ capture.w > MNIST_WIDTH
    /\ capture.h = 1
    /\ \E c \in Cells : F32Zero < input_image_[c] /\ input_image_[c] < F32One

\* C2: every source pixel the call samples has 0 <= srcX < W and
\* 0 <= srcY < H, and the three bytes read for it, idx, idx + 1 and idx + 2,
\* lie inside the W*H*4 bytes of the buffer.
C2_SourceCoordinatesValid ==
    pc = "norm_done" =>
        \A sp \in sampled :
            /\ 0 <= sp[1] /\ sp[1] < capture.w
            /\ 0 <= sp[2] /\ sp[2] < capture.h
            /\ 0 <= PixelIdx(sp[1], sp[2], capture.w)
            /\ PixelIdx(sp[1], sp[2], capture.w) + 2 < capture.w * capture.h * 4
            /\ PixelIdx(sp[1], sp[2], capture.w) + 2 < capture.size

\* a capture narrower and taller than the image has been sampled, its last
\* row included
C2_Witness ==
    /\ pc = "norm_done"
    /\ capture.w < MNIST_WIDTH
    /\ capture.h > MNIST_HEIGHT
    /\ \E sp \in sampled : sp[1] = capture.w - 1 /\ sp[2] > MNIST_HEIGHT - 1

\* C3: a capture whose R, G and B bytes are all 255 normalizes to 784 zeros
\* and one whose R, G and B bytes are all 0 to 784 ones, whatever the alpha
\* bytes and whatever input_image_ held before.
C3_Inversion ==
    pc = "norm_done" =>
        /\ UniformRGB(ByteMax) => \A c \in Cells : input_image_[c] = F32Zero
        /\ UniformRGB(0) => \A c \in Cells : input_image_[c] = F32One

\* an all-white capture with transparent pixels has been normalized to
\* zeros in a second request
C3_Witness ==
    /\ pc = "norm_done"
    /\ nRequests = 2
    /\ UniformRGB(ByteMax)
    /\ \E p \in 0 .. (capture.w * capture.h - 1) : capture.px[4 * p + 3] # ByteMax
    /\ \A c \in Cells : input_image_[c] = F32Zero

-----------------------------------------------------------------------------
(* Properties of the decision code *)

\* probabilities are summed exactly, in units of 2^-26
FixedOne == 2 ^ 26
FixBits == BitLen(FixedOne) - 1

\* floor(p * 2^26) for a float p in [0, 2); 2^27 from 2 on
F32ToFixed(p) ==
    IF p = 0 THEN 0
    ELSE IF p >= F32FromInt(2) THEN 2 ^ (FixBits + 1)
    ELSE LET sh == F32Expo(p) + FixBits
         IN  IF sh >= 0 THEN F32Mant(p) * 2 ^ sh
             ELSE IF sh < 0 - (MantBits + 1) THEN 0
             ELSE F32Mant(p) \div (2 ^ (0 - sh))

RECURSIVE FixedSum(_, _)
FixedSum(a, i) == IF i = NumClasses THEN 0 ELSE F32ToFixed(a[i]) + FixedSum(a, i + 1)

\* 1e-5 in units of 2^-26, less the ten units the truncations may lose
FixedTolerance == FixedOne \div 100000 - NumClasses

\* the logits with C added to each
Shifted(l, C) == [i \in Classes |-> F32OfInt(F32ToInt(l[i]) + C)]

\* C4: the index Run returns is in 0..9 and is the lowest index whose
\* probability equals the greatest of the ten; with ten equal logits it is 0.
C4_ArgMaxFirstMaximum ==
    pc = "dec_done" =>
        /\ predicted \in Classes
        /\ \A i \in Classes : results_[i] <= results_[predicted]
        /\ \A i \in Classes : i < predicted => results_[i] < results_[predicted]
        /\ (\A i \in Classes : logits[i] = logits[0]) => predicted = 0

\* the greatest probability occurs twice, first at an index above 0, and
\* Run has returned that index
C4_Witness ==
    /\ pc = "dec_done"
    /\ predicted > 0
    /\ \E j \in Classes : j > predicted /\ results_[j] = results_[predicted]

\* C5: after softmax every probability is >= 0, the ten sum to 1.0 within
\* 1e-5, and the logits with any constant C added to all of them give the
\* same ten probabilities.
C5_SoftmaxInvariants ==
    pc = "dec_probs" =>
        /\ \A i \in Classes : results_[i] >= F32Zero
        /\ FixedSum(results_, 0) >= FixedOne - FixedTolerance
        /\ FixedSum(results_, 0) <= FixedOne + FixedTolerance
        /\ \A C \in LogitVals : Softmax(Shifted(logits, C)) = results_

\* softmax has run on logits of both signs that are not all equal
C5_Witness ==
    /\ pc = "dec_probs"
    /\ \E i, j \in Classes : logits[i] < F32Zero /\ logits[j] > F32Zero
    /\ \E i, j \in Classes : results_[i] < results_[j]

-----------------------------------------------------------------------------
(* Properties of main *)

\* the value convertImage stores for a pixel of this colour read back from
\* the canvas
SampledValue(color, order) ==
    PixelValue(PackedByte(color, 0, order), PackedByte(color, 1, order),
               PackedByte(color, 2, order))

\* an inference has been made only by the left-button release handler
OnlyLeftReleaseInfers ==
    [][(input_image_' # input_image_ \/ results_' # results_ \/ calls' # calls)
          => (calls' # <<>> /\ drawing' = FALSE)]_vars

\* C6: when session Run throws during a pointer-release, the process does
\* not crash: the event loop goes on (or ends by quit) and no prediction is
\* reported for that release.
C6_InferenceFailureRecoverable ==
    calls = FailedRequest => pc \in {"poll", "exited"}

\* C7: with no readable file at the model path, load fails once, a
\* diagnostic is printed, main returns non-zero, and neither the event loop
\* nor convertImage nor Run is ever reached.
C7_LoadFailureFatalButClean ==
    (modelKind = "missing" /\ pc # "load") =>
        /\ pc = "exited"
        /\ exitStatus # 0
        /\ cerr = <<"ONNX Runtime error">>
        /\ calls = <<>>
        /\ input_image_ = ZeroImage
        /\ report = <<>>
        /\ texture = BlankTexture /\ drawing = FALSE /\ quit = FALSE

\* the process has ended on a failed load
C7_Witness ==
    /\ modelKind = "missing"
    /\ pc = "exited"
    /\ exitStatus = -1

C9_OneCompleteRequestPerRelease ==
    calls # <<>> =>
        /\ calls = FullRequest
        /\ report # <<>>
        /\ pc \in {"poll", "exited"}

\* C10: every stroke segment on the canvas was drawn in a colour strictly
\* darker than the white background, so that a sampled ink pixel normalizes
\* strictly higher than a sampled background pixel.
C10_InkDarkerThanBackground ==
    \A n \in DOMAIN texture.segs :
        /\ texture.segs[n].color[1] + texture.segs[n].color[2]
              + texture.segs[n].color[3] < 3 * ByteMax
        /\ SampledValue(texture.segs[n].color, HostByteOrder)
              > SampledValue(texture.clear, HostByteOrder)

=============================================================================
